---- MODULE Spec2Model ----
(***************************************************************************)
(* Watermark removal engine of src/services/watermark/removalService.ts:   *)
(* the inpainter (removeWatermark, inpaintRegion, gaussianBlur) and the    *)
(* block detector (detectWatermarks).                                      *)
(*                                                                         *)
(* A pixel is a tuple <<r, g, b, a>> of 8-bit values.  An image is a       *)
(* record [width, height, data] whose data maps the row-major pixel index  *)
(* 0 .. width*height-1 to a pixel (the source's byte index is 4 times the  *)
(* pixel index plus the channel).  A normalised coordinate is a rational   *)
(* <<numerator, denominator>>.                                             *)
(***************************************************************************)
EXTENDS Integers, Sequences, FiniteSets, TLC

\* ------------------------------------------------------------ bounds
\* Largest canvas of the removal runs.
MaxW == 8
MaxH == 4
\* Longest selection list handed to removeWatermark.
MaxSel == 2
\* Math.random() returns k/RandDen, k in 0..RandDen-1.
RandDen == 2
\* Calls of detectWatermarks on one image.
MaxCalls == 2

\* ------------------------------------------------- program constants
\* removalService.ts:92  Math.min(20, ...)
MaxSampleRadius == 20
\* removalService.ts:157 const samples = 5
samples == 5
\* removalService.ts:175 gaussianBlur(data, width, height, 2)
blurRadius == 2
\* removalService.ts:253 const gridSize = 32
gridSize == 32

VARIABLES
  img,         \* the decoded source image (what drawImage paints)
  selections,  \* the selections handed to removeWatermark
  tape,        \* the results Math.random() will return, in order
  pc,          \* where the removeWatermark call stands
  canvas,      \* the canvas' pixel buffer (NoCanvas before onload)
  i,           \* the loop index of removeWatermark
  drawn,       \* how many times Math.random() was called
  progress,    \* the values the progress sink received, in order
  log,         \* the order of region write-backs and sink calls
  prevCanvas,  \* the buffer as it stood when the last inpaintRegion began
  lastPool,    \* surroundingPixels of the last inpaintRegion
  lastTemp,    \* the copy the last gaussianBlur call read (<<>> if none)
  onProgress,  \* whether the caller supplied a progress sink
  error,       \* what the promise was rejected with ("none" until then)
  dpc,         \* where the detectWatermarks call stands
  detections,  \* the selections detectWatermarks resolved with
  derror,      \* what detectWatermarks was rejected with, or threw
  dbuffer,     \* imageData of detectWatermarks when its handler returned
  earlier,     \* what the earlier detectWatermarks calls resolved with
  store,         \* the state of useWatermarkStore
  autoDetecting, \* WatermarkRemover's autoDetecting state
  uploading,     \* the file FileUploader is decoding (Null if none)
  scale,         \* MediaPreview's zoom, as <<num, den>>
  isDrawing,     \* MediaPreview's isDrawing state
  startPoint     \* MediaPreview's startPoint state (Null if none)

\* The variables of the detectWatermarks call.
dvars == <<dpc, detections, derror, dbuffer, earlier>>

\* The variables of the user interface: the store and the components' state.
uvars == <<store, autoDetecting, uploading, scale, isDrawing, startPoint>>

vars == <<img, selections, tape, pc, canvas, i, drawn, progress, log,
          prevCanvas, lastPool, lastTemp, onProgress, error,
          dpc, detections, derror, dbuffer, earlier,
          store, autoDetecting, uploading, scale, isDrawing, startPoint>>

\* ------------------------------------------------------- arithmetic
Min(a, b) == IF a < b THEN a ELSE b

\* 2^k.
RECURSIVE Pow2(_)
Pow2(k) == IF k = 0 THEN 1 ELSE 2 * Pow2(k - 1)

\* The greatest k with 2^k <= v, for v >= 1.
RECURSIVE FloorLog2(_)
FloorLog2(v) == IF v < 2 THEN 0 ELSE 1 + FloorLog2(v \div 2)

\* The greatest L, negative below 1, with 2^L <= a/b, for a, b >= 1: the
\* binary exponent of the double a/b.
RECURSIVE FloorLog2Ratio(_, _)
FloorLog2Ratio(a, b) ==
  IF a >= 2 * b THEN 1 + FloorLog2Ratio(a, 2 * b)
  ELSE IF a < b THEN FloorLog2Ratio(2 * a, b) - 1
  ELSE 0

\* 2^e modulo b.
RECURSIVE PowMod2(_, _)
PowMod2(e, b) ==
  IF e = 0 THEN 1 % b
  ELSE LET h == PowMod2(e \div 2, b)
       IN  (h * h * (IF e % 2 = 1 THEN 2 ELSE 1)) % b

\* The quotient a / b of two numbers is a double: the 53-bit significand m
\* nearest to a * 2^e / b, ties to even, over 2^e with e = 52 less the
\* binary exponent.  QuotientError is m * b - a * 2^e: negative when the
\* double lies below a/b, zero when a/b is a double, as it is for every b
\* that is a power of two.
QuotientError(a, b) ==
  LET e == 52 - FloorLog2Ratio(a, b)
      r == ((a % b) * PowMod2(e, b)) % b
      odd == 2 * (((a % b) * PowMod2(e - 1, b)) % b) >= b
  IN  IF Pow2(FloorLog2(b)) = b THEN 0
      ELSE IF 2 * r > b \/ (2 * r = b /\ odd) THEN b - r ELSE 0 - r

\* Math.floor(x * n) for the double x = num / den of q = <<num, den>> >= 0
\* and an integer n >= 0.  Where the exact product is not a whole number it
\* is at least 1/den from one and rounding cannot change the floor.  Where
\* it is the whole number v the product of the doubles is
\* v + QuotientError * n / (den * 2^e), which is rounded to a double again:
\* from above it comes back to v; from below it comes back to v only within
\* half the distance to the double before v, 2^(k - 53) with k the binary
\* exponent of v (half of that when v is a power of two), and otherwise the
\* floor is v - 1.
FloorMul(q, n) ==
  LET t == q[1] * n
      v == t \div q[2]
  IN  IF t % q[2] # 0 \/ v = 0 THEN v
      ELSE LET d == QuotientError(q[1], q[2])
               k == FloorLog2(v)
               c == IF Pow2(k) = v THEN 4 ELSE 2
           IN  IF d >= 0 THEN v
               ELSE IF c * (0 - d) * n
                         <= q[2] * Pow2(k - FloorLog2Ratio(q[1], q[2]))
                    THEN v
                    ELSE v - 1

\* Storing num/den (>= 0) into a Uint8ClampedArray: round to nearest, ties
\* to even, clamp to 255.
ToUint8Clamped(num, den) ==
  LET fl == num \div den
      rem2 == 2 * (num % den)
      r == IF rem2 > den THEN fl + 1
           ELSE IF rem2 < den THEN fl
           ELSE IF fl % 2 = 0 THEN fl ELSE fl + 1
  IN  IF r > 255 THEN 255 ELSE r

Transparent == <<0, 0, 0, 0>>
White == <<255, 255, 255, 255>>

\* --------------------------------------------------------- the canvas
NoCanvas == [width |-> 0, height |-> 0, data |-> <<>>]

InCanvas(c, px, py) == px >= 0 /\ px < c.width /\ py >= 0 /\ py < c.height

\* ctx.getImageData(sx, sy, sw, sh).data for sw, sh > 0: pixels outside the
\* canvas read as transparent black.
getImageData(c, sx, sy, sw, sh) ==
  [n \in 0 .. sw * sh - 1 |->
     LET px == sx + (n % sw)
         py == sy + (n \div sw)
     IN  IF InCanvas(c, px, py) THEN c.data[py * c.width + px] ELSE Transparent]

\* ctx.putImageData(imageData, dx, dy): writes the sw x sh block, clipped to
\* the canvas.
putImageData(c, data, dx, dy, sw, sh) ==
  [c EXCEPT !.data =
     [n \in DOMAIN c.data |->
        LET px == n % c.width
            py == n \div c.width
        IN  IF px >= dx /\ px < dx + sw /\ py >= dy /\ py < dy + sh
            THEN data[(py - dy) * sw + (px - dx)]
            ELSE c.data[n]]]

\* ------------------------------------------------------ inpaintRegion
\* removalService.ts:92
sampleRadius(width, height) ==
  Min(MaxSampleRadius, Min(width, height) \div 4)

\* The offsets (i, j) one strip's two nested loops visit, in the order they
\* visit them: i runs over i0 .. i0+ni-1 (outer), j over j0 .. j0+nj-1 (inner).
Strip(i0, ni, j0, nj) ==
  IF ni <= 0 \/ nj <= 0 THEN <<>>
  ELSE [n \in 1 .. ni * nj |-> <<i0 + ((n - 1) \div nj), j0 + ((n - 1) % nj)>>]

\* The four strips without their extension past the region's corners.
RingOffsetsNoCorners(width, height, r) ==
  Strip(0, width, -r, r)
    \o Strip(0, width, height, r)
    \o Strip(-r, r, 0, height)
    \o Strip(width, r, 0, height)

\* The offsets of the four strips, top, bottom, left, right (lines 97-143).
RingOffsets(width, height, r) ==
  Strip(-r, width + 2 * r, -r, r)
    \o Strip(-r, width + 2 * r, height, r)
    \o Strip(-r, r, 0, height)
    \o Strip(width, r, 0, height)

\* surroundingPixels as built by lines 95-143: the in-canvas pixels of the
\* ring, in push order.
surroundingPixels(c, x, y, width, height) ==
  LET offs == RingOffsets(width, height, sampleRadius(width, height))
      inside == SelectSeq(offs, LAMBDA o : InCanvas(c, x + o[1], y + o[2]))
  IN  [n \in 1 .. Len(inside) |->
         c.data[(y + inside[n][2]) * c.width + (x + inside[n][1])]]

\* The n-th result of Math.random() (n counted from 0), as the numerator of
\* a fraction over RandDen.
Random(t, n) == t[n % Cardinality(DOMAIN t)]

\* Math.floor(Math.random() * surroundingPixels.length), line 161.
RandomIndex(t, n, len) == (Random(t, n) * len) \div RandDen

\* The pool entry the s-th sample of output pixel p draws (0-based p, s).
randomPixel(pool, t, d, p, s) ==
  pool[1 + RandomIndex(t, d + samples * p + s, Len(pool))]

RECURSIVE SumSamples(_, _, _, _, _, _)
SumSamples(pool, t, d, p, ch, s) ==
  IF s = 0 THEN 0
  ELSE SumSamples(pool, t, d, p, ch, s - 1) + randomPixel(pool, t, d, p, s - 1)[ch]

\* FillFromPool with the alpha sum fed from the blue channel (a += randomPixel[2]).
FillFromPoolAlphaFromBlue(data, pool, t, d) ==
  [p \in DOMAIN data |->
     [ch \in 1 .. 4 |->
        ToUint8Clamped(
          SumSamples(pool, t, d, p, IF ch = 4 THEN 3 ELSE ch, samples), samples)]]

\* FillFromPool drawing a sample per channel: r, g, b and a of one sample
\* come from four Math.random() calls.
FillFromPoolPerChannel(data, pool, t, d) ==
  [p \in DOMAIN data |->
     [ch \in 1 .. 4 |->
        ToUint8Clamped(
          SumSamples(pool, t, d + 3 * samples * p + samples * (ch - 1), p, ch,
                     samples), samples)]]

\* Lines 155-172: every pixel of data becomes the mean of 5 sampled entries.
FillFromPool(data, pool, t, d) ==
  [p \in DOMAIN data |->
     [ch \in 1 .. 4 |->
        ToUint8Clamped(SumSamples(pool, t, d, p, ch, samples), samples)]]

\* A kernel one pixel narrower on every side than that of lines 197-211.
KernelOffsetsNarrow(radius) ==
  LET side == 2 * radius - 1
  IN  [n \in 1 .. side * side |->
         <<((n - 1) % side) - (radius - 1), ((n - 1) \div side) - (radius - 1)>>]

\* The kernel of lines 197-211 as the sequence of its (dx, dy), dy outer.
KernelOffsets(radius) ==
  LET side == 2 * radius + 1
  IN  [n \in 1 .. side * side |->
         <<((n - 1) % side) - radius, ((n - 1) \div side) - radius>>]

\* Line 202: the neighbour of (x, y) at offset o lies inside the block.
InBlock(x, y, o, width, height) ==
  /\ x + o[1] >= 0 /\ x + o[1] < width
  /\ y + o[2] >= 0 /\ y + o[2] < height

\* The sum of channel ch over the first n of the kernel offsets valid, as
\* accumulated by lines 203-207.
RECURSIVE KernelSum(_, _, _, _, _, _, _)
KernelSum(tempData, width, valid, x, y, ch, n) ==
  IF n = 0 THEN 0
  ELSE KernelSum(tempData, width, valid, x, y, ch, n - 1)
         + tempData[(y + valid[n][2]) * width + (x + valid[n][1])][ch]

\* BlurPixel dividing by the size of the kernel, (2 * radius + 1)^2.
BlurPixelFixedCount(tempData, width, height, radius, n) ==
  LET x == n % width
      y == n \div width
      valid == SelectSeq(KernelOffsets(radius),
                         LAMBDA o : InBlock(x, y, o, width, height))
  IN  [ch \in 1 .. 4 |->
         ToUint8Clamped(KernelSum(tempData, width, valid, x, y, ch, Len(valid)),
                        (2 * radius + 1) * (2 * radius + 1))]

\* The value gaussianBlur stores at pixel n (lines 195-217): the mean over
\* the kernel positions inside the block, count of them.
BlurPixel(tempData, width, height, radius, n) ==
  LET x == n % width
      y == n \div width
      valid == SelectSeq(KernelOffsets(radius),
                         LAMBDA o : InBlock(x, y, o, width, height))
      count == Len(valid)
  IN  [ch \in 1 .. 4 |->
         ToUint8Clamped(KernelSum(tempData, width, valid, x, y, ch, count), count)]

\* A blur without the copy: data after its first n pixels were replaced,
\* in loop order, each by the mean over data as it stood at that moment.
RECURSIVE BlurredUpTo(_, _, _, _, _)
BlurredUpTo(data, width, height, radius, n) ==
  IF n = 0 THEN data
  ELSE LET sofar == BlurredUpTo(data, width, height, radius, n - 1)
           px == BlurPixel(sofar, width, height, radius, n - 1)
       IN  [sofar EXCEPT ![n - 1] = <<px[1], px[2], px[3], px[4]>>]

gaussianBlurInPlace(data, width, height, radius) ==
  BlurredUpTo(data, width, height, radius, width * height)

\* gaussianBlur, lines 184-220: a box blur reading the copy tempData.
gaussianBlur(data, width, height, radius) ==
  [n \in DOMAIN data |-> BlurPixel(data, width, height, radius, n)]

\* InpaintData without the white fallback: an empty pool leaves the data as read.
InpaintDataNoFallback(c, x, y, width, height, t, d) ==
  LET data == getImageData(c, x, y, width, height)
      pool == surroundingPixels(c, x, y, width, height)
  IN  IF Len(pool) = 0
      THEN data
      ELSE gaussianBlur(FillFromPool(data, pool, t, d), width, height, blurRadius)

\* The data inpaintRegion writes back (lines 88-176), for width, height > 0.
InpaintData(c, x, y, width, height, t, d) ==
  LET data == getImageData(c, x, y, width, height)
      pool == surroundingPixels(c, x, y, width, height)
  IN  IF Len(pool) = 0
      THEN [n \in DOMAIN data |-> White]
      ELSE gaussianBlur(FillFromPool(data, pool, t, d), width, height, blurRadius)

\* The copy of data gaussianBlur takes at line 190 when inpaintRegion calls
\* it: the data as the fill loop left it; <<>> on the white-fallback path,
\* where gaussianBlur is not called.
BlurInput(c, x, y, width, height, t, d) ==
  LET data == getImageData(c, x, y, width, height)
      pool == surroundingPixels(c, x, y, width, height)
  IN  IF Len(pool) = 0 THEN <<>> ELSE FillFromPool(data, pool, t, d)

\* How many Math.random() calls inpaintRegion makes.
DrawsUsed(c, x, y, width, height) ==
  IF Len(surroundingPixels(c, x, y, width, height)) = 0 THEN 0
  ELSE samples * width * height

\* A getImageData that returns an empty ImageData for an empty rectangle.
ThrowsNever(width, height) == FALSE

\* getImageData throws IndexSizeError when the rectangle is empty (line 88).
Throws(width, height) == width = 0 \/ height = 0

\* inpaintRegion writing back with the offsets swapped: putImageData(imageData, y, x).
inpaintRegionSwapped(c, x, y, width, height, t, d) ==
  putImageData(c, InpaintData(c, x, y, width, height, t, d), y, x, width, height)

\* The canvas after inpaintRegion(ctx, x, y, width, height) returns.
inpaintRegion(c, x, y, width, height, t, d) ==
  putImageData(c, InpaintData(c, x, y, width, height, t, d), x, y, width, height)

\* ------------------------------------------------------------- inputs
Zero == <<0, 1>>
Half == <<1, 2>>
One == <<1, 1>>

\* Pixels of the source images.
Gray == <<128, 128, 128, 255>>

\* "gray": opaque mid-gray everywhere.  "mixed": three colours along the
\* diagonals, opaque from the middle column on and translucent or
\* transparent left of it.
Patterns == {"gray", "mixed"}

PatternPixel(p, w, x, y) ==
  IF p = "gray" THEN Gray
  ELSE LET k == (x + 2 * y) % 3
           a == IF 2 * x + 2 >= w THEN 255 ELSE IF k = 0 THEN 0 ELSE 100
       IN  IF k = 0 THEN <<10, 20, 30, a>>
           ELSE IF k = 1 THEN <<200, 100, 50, a>>
           ELSE <<90, 250, 170, a>>

MakeImage(w, h, p) ==
  [width |-> w, height |-> h,
   data |-> [n \in 0 .. w * h - 1 |-> PatternPixel(p, w, n % w, n \div w)]]

Widths == {1, MaxW}
Heights == {1, MaxH}
\* An image with room for a region of 4 x 4 pixels clear of all four edges.
RingImage == MakeImage(MaxW - 2, MaxH + 2, "mixed")

Images ==
  {MakeImage(w, h, p) : w \in Widths, h \in Heights, p \in Patterns}
    \cup {RingImage}

Selection(x, y, width, height) ==
  [x |-> x, y |-> y, width |-> width, height |-> height, type |-> "manual"]

\* A selection clear of the four edges: on RingImage its pixel rectangle is
\* 4 x 4 at (1, 1).
Inner == Selection(<<1, 6>>, <<1, 6>>, <<2, 3>>, <<2, 3>>)

\* Single selections: corner at 0 or 1/2, extent 0, 1/2 or 1 of the image,
\* and Inner.
Regions ==
  {Selection(x, y, w, h) : x \in {Zero, Half}, y \in {Zero, Half},
                           w \in {Zero, Half, One}, h \in {Zero, Half, One}}
    \cup {Inner}

\* Selections of the longer lists: the left half, the right half and an
\* empty one.
SeqRegions ==
  {Selection(Zero, Zero, Half, One), Selection(Half, Zero, Half, One),
   Selection(Zero, Zero, Zero, One)}

SelLists ==
  {<<>>} \cup {<<r>> : r \in Regions}
    \cup UNION {[1 .. n -> SeqRegions] : n \in 2 .. MaxSel}

Tapes == [{0, 1} -> 0 .. RandDen - 1]

\* ---------------------------------------------------- removeWatermark
\* Lines 41-44: the pixel rectangle of a selection on canvas c.
PixelRect(c, sel) ==
  [x |-> FloorMul(sel.x, c.width), y |-> FloorMul(sel.y, c.height),
   width |-> FloorMul(sel.width, c.width),
   height |-> FloorMul(sel.height, c.height)]

\* ProgressValue computed from the index itself: (i / selections.length) * 100.
ProgressValueFromIndex(k, n) == <<k * 100, n>>

\* Line 51: ((i + 1) / selections.length) * 100 as a rational, i 0-based.
ProgressValue(k, n) == <<(k + 1) * 100, n>>

\* ------------------------------------------------- useWatermarkStore
\* null, for the fields that hold a record or nothing.
Null == [type |-> "null"]

\* part_015:39-43, the initial processingStatus; error is not set.
InitialStatus ==
  [isProcessing |-> FALSE, progress |-> <<0, 1>>, stage |-> "idle",
   error |-> "undefined"]

\* part_015:50-57, the initial state, which reset (80-90) restores.
InitialStore ==
  [mediaFile |-> Null, processedMediaUrl |-> Null, selections |-> <<>>,
   currentSelection |-> Null, selectionMode |-> "manual",
   toolMode |-> "select", processingStatus |-> InitialStatus]

\* part_015:73-75: the fields of status replace those of processingStatus,
\* the others stay.
setProcessingStatus(st, status) ==
  [st EXCEPT !.processingStatus =
     [k \in DOMAIN st.processingStatus |->
        IF k \in DOMAIN status THEN status[k] ELSE st.processingStatus[k]]]

\* part_015:61-72.
setMediaFile(st, file) == [st EXCEPT !.mediaFile = file]
setProcessedMediaUrl(st, url) == [st EXCEPT !.processedMediaUrl = url]
addSelection(st, sel) == [st EXCEPT !.selections = Append(@, sel)]
clearSelections(st) == [st EXCEPT !.selections = <<>>]
setCurrentSelection(st, sel) == [st EXCEPT !.currentSelection = sel]
setToolMode(st, mode) == [st EXCEPT !.toolMode = mode]

\* The user interface before anything was dropped on it: the store as
\* created, MediaPreview's state as useState creates it.
Unused ==
  /\ store = InitialStore
  /\ autoDetecting = FALSE
  /\ uploading = Null
  /\ scale = <<4, 4>>
  /\ isDrawing = FALSE
  /\ startPoint = Null

Init ==
  /\ Unused
  /\ img \in Images
  /\ selections \in SelLists
  /\ tape \in Tapes
  /\ onProgress \in BOOLEAN
  /\ pc = "loading"
  /\ canvas = NoCanvas
  /\ i = 0
  /\ drawn = 0
  /\ progress = <<>>
  /\ log = <<>>
  /\ prevCanvas = NoCanvas
  /\ lastPool = <<>>
  /\ lastTemp = <<>>
  /\ error = "none"
  /\ dpc = "idle"
  /\ detections = <<>>
  /\ derror = "none"
  /\ dbuffer = NoCanvas
  /\ earlier = <<>>

\* The loop of lines 37-63 from index k on buffer c, up to the next await:
\* either the loop is over and toBlob is called, or inpaintRegion throws and
\* the catch rejects, or region k is inpainted and the call suspends.
LoopFrom(c, k, lg) ==
  IF k >= Len(selections)
  THEN /\ pc' = "encoding"
       /\ canvas' = c
       /\ i' = k
       /\ log' = lg
       /\ UNCHANGED <<drawn, prevCanvas, lastPool, lastTemp, error>>
  ELSE LET r == PixelRect(c, selections[k + 1])
       IN  IF Throws(r.width, r.height)
           THEN /\ pc' = "rejected"
                /\ error' = "IndexSizeError"
                /\ canvas' = c
                /\ i' = k
                /\ log' = lg
                /\ UNCHANGED <<drawn, prevCanvas, lastPool, lastTemp>>
           ELSE /\ pc' = "awaiting"
                /\ canvas' = inpaintRegion(c, r.x, r.y, r.width, r.height, tape, drawn)
                /\ prevCanvas' = c
                /\ lastPool' = surroundingPixels(c, r.x, r.y, r.width, r.height)
                /\ lastTemp' = BlurInput(c, r.x, r.y, r.width, r.height, tape, drawn)
                /\ drawn' = drawn + DrawsUsed(c, r.x, r.y, r.width, r.height)
                /\ i' = k
                /\ log' = Append(lg, <<"inpaint", k + 1>>)
                /\ UNCHANGED error

\* An onerror handler that notes the failure and leaves the promise alone.
OnerrorWithoutReject ==
  /\ pc = "loading"
  /\ pc' = "failed"
  /\ UNCHANGED <<img, selections, tape, canvas, i, drawn, progress, log,
                 prevCanvas, lastPool, lastTemp, onProgress, error>>
  /\ UNCHANGED dvars
  /\ UNCHANGED uvars

\* img.onerror, lines 69-71.
OnerrorStep ==
  /\ pc = "loading"
  /\ pc' = "rejected"
  /\ error' = "Could not load image"
  /\ UNCHANGED <<img, selections, tape, canvas, i, drawn, progress, log,
                 prevCanvas, lastPool, lastTemp, onProgress>>
  /\ UNCHANGED dvars

\* Img.onerror of removeWatermark, called by itself: the user interface is not there.
Onerror == OnerrorStep /\ UNCHANGED uvars

\* img.onload when getContext('2d') returns null, lines 26-31.
OnloadNoContextStep ==
  /\ pc = "loading"
  /\ pc' = "rejected"
  /\ error' = "Could not get canvas context"
  /\ canvas' = [width |-> img.width, height |-> img.height, data |-> <<>>]
  /\ UNCHANGED <<img, selections, tape, i, drawn, progress, log,
                 prevCanvas, lastPool, lastTemp, onProgress>>
  /\ UNCHANGED dvars

\* Img.onload of removeWatermark without a 2D context, called by itself: the user interface is not there.
OnloadNoContext == OnloadNoContextStep /\ UNCHANGED uvars

\* img.onload, lines 21-47: the canvas is drawn and the loop entered.
OnloadStep ==
  /\ pc = "loading"
  /\ LoopFrom(img, 0, log)
  /\ UNCHANGED <<img, selections, tape, progress, onProgress>>
  /\ UNCHANGED dvars

\* Img.onload of removeWatermark, called by itself: the user interface is not there.
Onload == OnloadStep /\ UNCHANGED uvars

\* Resume with every region inpainted on the image as loaded instead of on
\* the buffer the earlier regions wrote.
ResumeOnLoadedImage ==
  /\ pc = "awaiting"
  /\ progress' = IF onProgress
                 THEN Append(progress, ProgressValue(i, Len(selections)))
                 ELSE progress
  /\ LoopFrom(img, i + 1,
              IF onProgress THEN Append(log, <<"progress", i + 1>>) ELSE log)
  /\ UNCHANGED <<img, selections, tape, onProgress>>
  /\ UNCHANGED dvars
  /\ UNCHANGED uvars

\* The continuation after await inpaintRegion, lines 49-63: the sink is
\* called, then the loop goes on.
ResumeStep ==
  /\ pc = "awaiting"
  /\ progress' = IF onProgress
                 THEN Append(progress, ProgressValue(i, Len(selections)))
                 ELSE progress
  /\ LoopFrom(canvas, i + 1,
              IF onProgress THEN Append(log, <<"progress", i + 1>>) ELSE log)
  /\ UNCHANGED <<img, selections, tape, onProgress>>
  /\ UNCHANGED dvars

\* The continuation of removeWatermark, called by itself: the user interface is not there.
Resume == ResumeStep /\ UNCHANGED uvars

\* The toBlob callback, lines 56-63.
BlobCallbackStep ==
  /\ pc = "encoding"
  /\ \E blob \in BOOLEAN :
       /\ pc' = IF blob THEN "resolved" ELSE "rejected"
       /\ error' = IF blob THEN error ELSE "Could not create blob from canvas"
  /\ UNCHANGED <<img, selections, tape, canvas, i, drawn, progress, log,
                 prevCanvas, lastPool, lastTemp, onProgress>>
  /\ UNCHANGED dvars

\* The toBlob callback, called by itself: the user interface is not there.
BlobCallback == BlobCallbackStep /\ UNCHANGED uvars

Next == Onerror \/ OnloadNoContext \/ Onload \/ Resume \/ BlobCallback

Spec == Init /\ [][Next]_vars

\* The call waits for an event: the load or error event of the image, the
\* resumption after an await, the toBlob callback.
Pending == pc \in {"loading", "awaiting", "encoding"}

\* A pending call moves on: it is at another place or another region.
Delivered ==
  /\ Pending
  /\ pc' \in {"awaiting", "encoding", "resolved", "rejected"}
  /\ i' \in 0 .. Len(selections)
  /\ <<pc', i'>> # <<pc, i>>

\* The browser delivers every pending event, so a pending call does not
\* wait forever.
SpecFair == Init /\ [][Next]_vars /\ WF_<<pc, i>>(Delivered)

\* ------------------------------------------------- claims: inpainting
\* The pixel rectangle of the region the last inpaintRegion call wrote, in
\* a state where that call has just returned.
LastRect == PixelRect(canvas, selections[i + 1])

InRect(r, px, py) ==
  px >= r.x /\ px < r.x + r.width /\ py >= r.y /\ py < r.y + r.height

\* The canvas pixels (as indices) inside / outside rectangle r.
PixelsInside(c, r) ==
  {n \in DOMAIN c.data : InRect(r, n % c.width, n \div c.width)}
PixelsOutside(c, r) == DOMAIN c.data \ PixelsInside(c, r)

\* C1: region exclusivity.  When inpaintRegion has returned, every pixel
\* outside the region's rectangle has the RGBA value it had before the call,
\* on the white-fallback path and on the sample-and-blur path.
C1_RegionExclusivity ==
  pc = "awaiting" =>
    \A n \in PixelsOutside(canvas, LastRect) : canvas.data[n] = prevCanvas.data[n]

\* C1 witness: a sample-and-blur call that changed the buffer while pixels
\* outside the rectangle exist.
C1_Witness ==
  /\ pc = "awaiting"
  /\ lastPool # <<>>
  /\ canvas # prevCanvas
  /\ PixelsOutside(canvas, LastRect) # {}

\* The region covers every pixel of the buffer: nothing of the buffer
\* surrounds it.
Covers(c, r) == PixelsOutside(c, r) = {}

\* C2: fallback correctness.  A region with no surrounding pixel inside the
\* buffer (it covers the whole image, a 1x1 image included) is filled with
\* (255,255,255,255), and its inpainting does not fail.
C2_FallbackCorrectness ==
  /\ (pc = "awaiting" /\ Covers(canvas, LastRect)) =>
       \A n \in DOMAIN canvas.data : canvas.data[n] = White
  /\ (pc = "rejected" /\ error = "IndexSizeError") =>
       ~Covers(canvas, LastRect)

\* C2 witness: the 1x1 image, covered by its region, turned white.
C2_Witness ==
  /\ pc = "awaiting"
  /\ canvas.width = 1 /\ canvas.height = 1
  /\ Covers(canvas, LastRect)
  /\ prevCanvas.data[0] # White
  /\ canvas.data[0] = White

\* Some pixel of the buffer lies immediately outside rectangle r (in the
\* ring of thickness 1 around it).
HasNeighbour(c, r) ==
  \E n \in PixelsOutside(c, r) :
    InRect([x |-> r.x - 1, y |-> r.y - 1, width |-> r.width + 2,
            height |-> r.height + 2], n % c.width, n \div c.width)

\* C3: the white fallback is taken only when the region touches no pixel of
\* the buffer: a region with a buffer pixel immediately outside it has a
\* non-empty context pool, whatever its width and height.
C3_PoolEmptyOnlyWithoutNeighbours ==
  (pc = "awaiting" /\ HasNeighbour(canvas, LastRect)) => lastPool # <<>>

RECURSIVE RunRegions(_, _, _, _)
RunRegions(c, sels, t, d) ==
  IF sels = <<>> THEN c
  ELSE LET r == PixelRect(c, Head(sels))
       IN  RunRegions(inpaintRegion(c, r.x, r.y, r.width, r.height, t, d),
                      Tail(sels), t, d + DrawsUsed(c, r.x, r.y, r.width, r.height))

\* C9: sequential composition.  Regions are processed one at a time in the
\* order of the sequence: the step that inpaints a region takes the next
\* index, reads its context pool from the buffer as the previous region's
\* write-back left it (the loaded image for the first), and writes inside
\* that region's rectangle only.
C9_SequentialComposition ==
  [][(pc' = "awaiting") =>
       LET before == IF pc = "loading" THEN img ELSE canvas
           r == PixelRect(before, selections[i' + 1])
       IN  /\ i' = (IF pc = "loading" THEN 0 ELSE i + 1)
           /\ prevCanvas' = before
           /\ lastPool' = surroundingPixels(before, r.x, r.y, r.width, r.height)
           /\ \A n \in PixelsOutside(before, r) : canvas'.data[n] = before.data[n]
    ]_vars

\* C9 witness: two different adjacent regions A, B, both inpainted, whose
\* final buffer differs from the one the order [B, A] gives with the same
\* random draws.
C9_Witness ==
  /\ pc = "encoding"
  /\ Len(selections) = 2
  /\ selections[1] # selections[2]
  /\ \A k \in 1 .. 2 : LET r == PixelRect(img, selections[k])
                       IN  ~Throws(r.width, r.height)
  /\ canvas = RunRegions(img, selections, tape, 0)
  /\ canvas # RunRegions(img, <<selections[2], selections[1]>>, tape, 0)

\* a < b for rationals with positive denominators.
RatLess(a, b) == a[1] * b[2] < b[1] * a[2]

\* The removal ran through all its regions.
AllRegionsDone ==
  \/ pc \in {"encoding", "resolved"}
  \/ pc = "rejected" /\ error = "Could not create blob from canvas"

NextIndex == IF pc = "loading" THEN 0 ELSE i + 1
BufferBefore == IF pc = "loading" THEN img ELSE canvas

\* floor(width * W) or floor(height * H) of selection sel is zero.
Degenerate(sel, W, H) ==
  (sel.width[1] * W) \div sel.width[2] = 0 \/ (sel.height[1] * H) \div sel.height[2] = 0

\* C11: degenerate region failure.  When the region the loop takes up next
\* has a pixel width or height of zero, the step that reaches it rejects the
\* removal: nothing is recorded as inpainted, the sink is not called for it,
\* and the buffer is left as the regions before it wrote it.  (A step that
\* rejects from the loading state for another reason never reached the
\* region.)
C11_DegenerateRegionFails ==
  [][(/\ pc \in {"loading", "awaiting"}
      /\ NextIndex < Len(selections)
      /\ Degenerate(selections[NextIndex + 1], BufferBefore.width,
                    BufferBefore.height))
       => /\ pc' = "rejected"
          /\ error' \in {"IndexSizeError", "Could not load image",
                         "Could not get canvas context"}
          /\ error' = "IndexSizeError" => canvas' = BufferBefore /\ i' = NextIndex
          /\ \A j \in DOMAIN log' : log'[j] # <<"inpaint", NextIndex + 1>>
          /\ Len(progress') <= NextIndex
    ]_vars

\* C11 witness: the second region of a list is degenerate; the removal is
\* rejected with the buffer as the first region left it.
C11_Witness ==
  /\ pc = "rejected"
  /\ error = "IndexSizeError"
  /\ i = 1
  /\ Degenerate(selections[2], canvas.width, canvas.height)
  /\ canvas # img
  /\ canvas = RunRegions(img, <<selections[1]>>, tape, 0)

\* ---------------------------------------------------- detectWatermarks
\* Line 267: alpha < 200.
AlphaThreshold == 200
\* Line 268: brightness > 200 || brightness < 50.
BrightThreshold == 200
DarkThreshold == 50
\* Line 274: 0.3 and 0.5, as rationals.
TransparentRatio == <<3, 10>>
BrightRatio == <<1, 2>>

\* The block origins with the loops exchanged: x outer, y inner.
BlockOriginsColumnMajor(im) ==
  LET nx == (im.width + gridSize - 1) \div gridSize
      ny == (im.height + gridSize - 1) \div gridSize
  IN  [n \in 1 .. nx * ny |->
         <<((n - 1) \div ny) * gridSize, ((n - 1) % ny) * gridSize>>]

\* The block origins stepping by one less than gridSize, so that each block
\* shares a column and a row with the next.
BlockOriginsOverlapping(im) ==
  LET nx == (im.width + gridSize - 1) \div gridSize
      ny == (im.height + gridSize - 1) \div gridSize
  IN  [n \in 1 .. nx * ny |->
         <<((n - 1) % nx) * (gridSize - 1), ((n - 1) \div nx) * (gridSize - 1)>>]

\* Lines 255-256: the origins <<x, y>> of the blocks, in the order the two
\* loops visit them (y outer, x inner, both stepping by gridSize).
BlockOrigins(im) ==
  LET nx == (im.width + gridSize - 1) \div gridSize
      ny == (im.height + gridSize - 1) \div gridSize
  IN  [n \in 1 .. nx * ny |->
         <<((n - 1) % nx) * gridSize, ((n - 1) \div nx) * gridSize>>]

\* Lines 261-263: the pixel indices the two inner loops visit for the block
\* at (x, y).
BlockPixels(im, x, y) ==
  {(y + dy) * im.width + (x + dx) :
     dx \in {d \in 0 .. gridSize - 1 : x + d < im.width},
     dy \in {d \in 0 .. gridSize - 1 : y + d < im.height}}

\* Line 265: brightness = (r + g + b) / 3 compared with a threshold t.  The
\* quotient is a double; sum/3 > t exactly when sum > 3t, and likewise for <,
\* because t is an integer and sum/3 is never within rounding distance of one
\* without being equal to it.
BrightnessAbove(px, t) == px[1] + px[2] + px[3] > 3 * t
BrightnessBelow(px, t) == px[1] + px[2] + px[3] < 3 * t

\* Lines 257-271: the three counters of the block at (x, y).
transparentPixels(im, x, y) ==
  Cardinality({n \in BlockPixels(im, x, y) : im.data[n][4] < AlphaThreshold})
brightPixels(im, x, y) ==
  Cardinality({n \in BlockPixels(im, x, y) :
                 \/ BrightnessAbove(im.data[n], BrightThreshold)
                 \/ BrightnessBelow(im.data[n], DarkThreshold)})
totalPixels(im, x, y) == Cardinality(BlockPixels(im, x, y))

\* count > totalPixels * ratio (line 274).  The product is a double: it is
\* exact for 0.5, and for 0.3 it rounds to the exact value whenever that is
\* an integer and is otherwise at least 0.1 away from every integer, so the
\* comparison agrees with the one over the rationals.
ExceedsRatio(count, total, ratio) == count * ratio[2] > total * ratio[1]

\* FlagRule with the two ratios exchanged.
FlagRuleRatiosSwapped(t, b, total) ==
  ExceedsRatio(t, total, BrightRatio) \/ ExceedsRatio(b, total, TransparentRatio)

\* FlagRule with >= for >.
FlagRuleNotStrict(t, b, total) ==
  \/ t * TransparentRatio[2] >= total * TransparentRatio[1]
  \/ b * BrightRatio[2] >= total * BrightRatio[1]

\* FlagRule without the ratio: any transparent or extreme pixel flags.
FlagRuleAnyPixel(t, b, total) == t > 0 \/ b > 0

\* Line 274.
FlagRule(t, b, total) ==
  ExceedsRatio(t, total, TransparentRatio) \/ ExceedsRatio(b, total, BrightRatio)

Flagged(im, x, y) ==
  FlagRule(transparentPixels(im, x, y), brightPixels(im, x, y),
           totalPixels(im, x, y))

\* BlockSelection without the Math.min clipping of the last column and row.
BlockSelectionUnclipped(im, x, y) ==
  [x |-> <<x, im.width>>, y |-> <<y, im.height>>,
   width |-> <<gridSize, im.width>>, height |-> <<gridSize, im.height>>,
   type |-> "auto"]

\* Lines 275-281: the selection pushed for the block at (x, y).
BlockSelection(im, x, y) ==
  [x |-> <<x, im.width>>, y |-> <<y, im.height>>,
   width |-> <<Min(gridSize, im.width - x), im.width>>,
   height |-> <<Min(gridSize, im.height - y), im.height>>,
   type |-> "auto"]

\* Lines 247-249: the ImageData read from the canvas the image was drawn on.
ImageData(im) ==
  [width |-> im.width, height |-> im.height,
   data |-> getImageData(im, 0, 0, im.width, im.height)]

\* A scan that clears every pixel it counted as transparent.
AfterScanClearing(buf) ==
  [buf EXCEPT !.data =
     [n \in DOMAIN buf.data |->
        IF buf.data[n][4] < AlphaThreshold THEN Transparent ELSE buf.data[n]]]

\* The ImageData after the loops of lines 255-284: they read data[idx],
\* data[idx + 1], data[idx + 2], data[idx + 3] and assign to no element.
AfterScan(buf) == buf

\* A scan whose detections array outlives the call: each call appends to
\* what the call before it left.
DetectAccumulating(im) ==
  LET flagged == SelectSeq(BlockOrigins(im), LAMBDA o : Flagged(im, o[1], o[2]))
      kept == IF earlier = <<>> THEN <<>> ELSE earlier[Len(earlier)]
  IN  kept \o [n \in 1 .. Len(flagged) |->
                 BlockSelection(im, flagged[n][1], flagged[n][2])]

\* Lines 252-286: the detections array detectWatermarks resolves with.
Detect(im) ==
  LET flagged == SelectSeq(BlockOrigins(im), LAMBDA o : Flagged(im, o[1], o[2]))
  IN  [n \in 1 .. Len(flagged) |-> BlockSelection(im, flagged[n][1], flagged[n][2])]

\* ------------------------------------------------- detector inputs
\* A w x h image of pixel bg whose first k pixels (row-major) are mark.
Marked(w, h, k, bg, mark) ==
  [width |-> w, height |-> h,
   data |-> [n \in 0 .. w * h - 1 |-> IF n < k THEN mark ELSE bg]]

\* A w x h image of pixel bg with a side x side square of pixel mark whose
\* top-left corner is at (at, at).
WithSquare(w, h, at, side, bg, mark) ==
  [width |-> w, height |-> h,
   data |-> [n \in 0 .. w * h - 1 |->
               IF /\ n % w >= at /\ n % w < at + side
                  /\ n \div w >= at /\ n \div w < at + side
               THEN mark ELSE bg]]

\* Pixels on both sides of each threshold of lines 267-268.
Marks ==
  {<<128, 128, 128, 150>>, <<128, 128, 128, 199>>, <<128, 128, 128, 200>>,
   <<200, 200, 200, 255>>, <<201, 200, 200, 255>>,
   <<50, 50, 50, 255>>, <<50, 50, 49, 255>>}

\* Pixels of alpha 0 with different RGB.
ClearPixels == {<<0, 0, 0, 0>>, <<128, 128, 128, 0>>, <<255, 255, 255, 0>>}

DetectImages ==
  \* one full block around the 0.3 and the 0.5 boundary
  {Marked(gridSize, gridSize, k, Gray, m) :
     k \in (304 .. 310) \cup (510 .. 514), m \in Marks}
  \* a block of 10 pixels: 0.3 and 0.5 of it are whole numbers
  \cup {Marked(10, 1, k, Gray, m) : k \in 0 .. 10, m \in Marks}
  \* images smaller than a block in one or both dimensions, and just larger
  \cup {Marked(w, h, k * w * h, Gray, <<255, 255, 255, 255>>) :
          w \in {1, 5, gridSize + 1}, h \in {1, gridSize - 1, gridSize + 1},
          k \in {0, 1}}
  \* a transparent square in a 64 x 64 image
  \cup {WithSquare(2 * gridSize, 2 * gridSize, at, side, Gray, m) :
          at \in {0, 24}, side \in {16, 40, 48}, m \in ClearPixels}
  \* a transparent row of a width whose block offsets and extents do not
  \* all survive the division by the width: 49 and 161
  \cup {Marked(w, 1, w, Gray, Transparent) : w \in {49, 5 * gridSize + 1}}
  \* an image that decodes to no pixels
  \cup {Marked(0, 0, 0, Gray, Gray)}

\* detectWatermarks is called on img; nothing else runs.
DetectInit ==
  /\ Unused
  /\ img \in DetectImages
  /\ dpc = "delay"
  /\ detections = <<>>
  /\ derror = "none"
  /\ dbuffer = NoCanvas
  /\ earlier = <<>>
  /\ selections = <<>>
  /\ tape = [n \in {0, 1} |-> 0]
  /\ onProgress = FALSE
  /\ pc = "idle"
  /\ canvas = NoCanvas
  /\ i = 0
  /\ drawn = 0
  /\ progress = <<>>
  /\ log = <<>>
  /\ prevCanvas = NoCanvas
  /\ lastPool = <<>>
  /\ lastTemp = <<>>
  /\ error = "none"

\* The variables of the removeWatermark call.
rvars == <<selections, tape, pc, canvas, i, drawn, progress, log,
           prevCanvas, lastPool, lastTemp, onProgress, error>>

\* Line 228: the 1500 ms timer fires, lines 232-293 set img.src.
DetectTimer ==
  /\ dpc = "delay"
  /\ dpc' = "loading"
  /\ UNCHANGED <<img, detections, derror, dbuffer, earlier, rvars>>
  /\ UNCHANGED uvars

\* img.onerror, lines 289-291.
DetectOnerrorStep ==
  /\ dpc = "loading"
  /\ dpc' = "rejected"
  /\ derror' = "Could not load image"
  /\ UNCHANGED <<img, detections, dbuffer, earlier, rvars>>

\* Img.onerror of detectWatermarks, called by itself: the user interface is not there.
DetectOnerror == DetectOnerrorStep /\ UNCHANGED uvars

\* img.onload when getContext('2d') returns null, lines 240-245.
DetectOnloadNoContextStep ==
  /\ dpc = "loading"
  /\ dpc' = "rejected"
  /\ derror' = "Could not get canvas context"
  /\ UNCHANGED <<img, detections, dbuffer, earlier, rvars>>

\* Img.onload of detectWatermarks without a 2D context, called by itself: the user interface is not there.
DetectOnloadNoContext == DetectOnloadNoContextStep /\ UNCHANGED uvars

\* img.onload, lines 236-287.  getImageData throws for an image without
\* pixels (line 248); the handler has no try, so the promise stays pending.
DetectOnloadStep ==
  /\ dpc = "loading"
  /\ IF Throws(img.width, img.height)
     THEN /\ dpc' = "threw"
          /\ derror' = "IndexSizeError"
          /\ UNCHANGED <<detections, dbuffer>>
     ELSE /\ dpc' = "resolved"
          /\ detections' = Detect(ImageData(img))
          /\ dbuffer' = AfterScan(ImageData(img))
          /\ UNCHANGED derror
  /\ UNCHANGED <<img, earlier, rvars>>

\* Img.onload of detectWatermarks, called by itself: the user interface is not there.
DetectOnload == DetectOnloadStep /\ UNCHANGED uvars

\* detectWatermarks is called again with the same imageUrl after the call
\* before it ended (lines 226-234): the new call has its own promise,
\* canvas and detections array.
DetectCall ==
  /\ dpc \in {"resolved", "rejected", "threw"}
  /\ Len(earlier) + 1 < MaxCalls
  /\ earlier' = IF dpc = "resolved" THEN Append(earlier, detections) ELSE earlier
  /\ dpc' = "delay"
  /\ detections' = <<>>
  /\ derror' = "none"
  /\ dbuffer' = NoCanvas
  /\ UNCHANGED <<img, rvars>>
  /\ UNCHANGED uvars

DetectNext ==
  \/ DetectTimer
  \/ DetectOnerror
  \/ DetectOnloadNoContext
  \/ DetectOnload
  \/ DetectCall

SpecDetect == DetectInit /\ [][DetectNext]_vars

\* ------------------------------------------------- the user interface
\* How many selections the store may hold when a detection is started.
MaxStored == 2

\* How many selections MediaPreview is followed through.
MaxDrawn == 1

\* What may be dropped on FileUploader: two images, the second without
\* anything the detector flags, an image that decodes to no pixels, a
\* video, a text file and an image over 100 MB.
Files ==
  {[type |-> t, url |-> u, large |-> FALSE] :
     <<t, u>> \in {<<"image", "a">>, <<"image", "b">>, <<"image", "z">>,
                   <<"video", "v">>, <<"other", "t">>}}
    \cup {[type |-> "image", url |-> "a", large |-> TRUE]}

\* The picture behind an object URL: what an Image element decodes from it,
\* for a video the size of its frames.
Decoded(url) ==
  CASE url = "a" -> Marked(2, 2, 2, Gray, Transparent)
    [] url = "z" -> Marked(0, 0, 0, Gray, Gray)
    [] OTHER -> Marked(2, 2, 0, Gray, Gray)

\* part_012:41-47 and 61-68: the MediaFile built when the file has loaded.
MediaOf(file) ==
  [type |-> file.type, url |-> file.url,
   width |-> Decoded(file.url).width, height |-> Decoded(file.url).height]

\* part_012:11-38 and 59, onDrop.  FileUploader is rendered while no media
\* file is set (Icons.tsx:282-283); one file is decoded at a time.
OnDrop ==
  /\ store.mediaFile = Null
  /\ uploading = Null
  /\ \E file \in Files :
       IF file.type \notin {"image", "video"}
       THEN /\ store' = setProcessingStatus(store, [error |-> "Ugyldig filtype"])
            /\ UNCHANGED uploading
       ELSE IF file.large
       THEN /\ store' = setProcessingStatus(store, [error |-> "Filen er for stor"])
            /\ UNCHANGED uploading
       ELSE /\ store' = setProcessingStatus(store,
                          [isProcessing |-> TRUE, stage |-> "uploading",
                           progress |-> <<0, 1>>])
            /\ uploading' = file
  /\ UNCHANGED <<img, rvars, dvars, autoDetecting, scale, isDrawing, startPoint>>

\* part_012:40-50 and 60-72, img.onload and video.onloadedmetadata.
\* MediaPreview is mounted with the media file, its state as created.
UploadOnload ==
  /\ uploading # Null
  /\ store' = setProcessingStatus(setMediaFile(store, MediaOf(uploading)),
                [isProcessing |-> FALSE, stage |-> "idle", progress |-> <<100, 1>>])
  /\ uploading' = Null
  /\ IF store.mediaFile = Null
     THEN scale' = <<4, 4>> /\ isDrawing' = FALSE /\ startPoint' = Null
     ELSE UNCHANGED <<scale, isDrawing, startPoint>>
  /\ UNCHANGED <<img, rvars, dvars, autoDetecting>>

\* part_012:51-57 and 73-79, img.onerror and video.onerror.
UploadOnerror ==
  /\ uploading # Null
  /\ store' = setProcessingStatus(store,
                [isProcessing |-> FALSE, stage |-> "idle",
                 error |-> "Kunne ikke laste inn"])
  /\ uploading' = Null
  /\ UNCHANGED <<img, rvars, dvars, autoDetecting, scale, isDrawing, startPoint>>

\* ------------------------------------------------- MediaPreview
\* The canvas MediaPreview shows has pixels to point at: an image with
\* pixels was drawn on it (SmartReplyButton.tsx:72-84), or nothing was and
\* it kept the size a canvas is created with.
Pointable ==
  /\ store.mediaFile # Null
  /\ store.mediaFile.type = "image" =>
       store.mediaFile.width > 0 /\ store.mediaFile.height > 0

\* SmartReplyButton.tsx:136-139 and 148-151: (e.clientX - rect.left) /
\* canvas.width and (e.clientY - rect.top) / canvas.height for a pointer on
\* the displayed canvas.  rect is the box after transform: scale(sc) with
\* its origin at the top left (257-269), sc times canvas.width wide, so the
\* quotient runs from 0 to sc.  The pointer is at the near edge, a quarter
\* across or at the far edge horizontally, at the top or the bottom edge;
\* sc is <<k, 4>> and the coordinates are sixteenths.
Pointer(sc) ==
  {[x |-> <<sc[1] * fx, 16>>, y |-> <<sc[1] * fy, 16>>] :
     fx \in {0, 1, 4}, fy \in {0, 4}}

\* SmartReplyButton.tsx:132-142, handleMouseDown.
HandleMouseDown ==
  /\ Pointable
  /\ store.toolMode = "select"
  /\ \E p \in Pointer(scale) :
       startPoint' = [type |-> "point", x |-> p.x, y |-> p.y]
  /\ isDrawing' = TRUE
  /\ UNCHANGED <<img, rvars, dvars, store, autoDetecting, uploading, scale>>

\* SmartReplyButton.tsx:153-159: the rectangle between startPoint and p.
Dragged(from, p) ==
  [x |-> IF RatLess(p.x, from.x) THEN p.x ELSE from.x,
   y |-> IF RatLess(p.y, from.y) THEN p.y ELSE from.y,
   width |-> <<IF p.x[1] < from.x[1] THEN from.x[1] - p.x[1]
                                     ELSE p.x[1] - from.x[1], 16>>,
   height |-> <<IF p.y[1] < from.y[1] THEN from.y[1] - p.y[1]
                                      ELSE p.y[1] - from.y[1], 16>>,
   type |-> "manual"]

\* SmartReplyButton.tsx:144-161, handleMouseMove.
HandleMouseMove ==
  /\ Pointable
  /\ isDrawing
  /\ startPoint # Null
  /\ \E p \in Pointer(scale) :
       store' = setCurrentSelection(store, Dragged(startPoint, p))
  /\ UNCHANGED <<img, rvars, dvars, autoDetecting, uploading, scale,
                 isDrawing, startPoint>>

\* SmartReplyButton.tsx:170: width > 0.01 && height > 0.01.
Significant(sel) ==
  RatLess(<<1, 100>>, sel.width) /\ RatLess(<<1, 100>>, sel.height)

\* SmartReplyButton.tsx:163-174, handleMouseUp, also bound to onMouseLeave.
HandleMouseUp ==
  /\ Pointable
  /\ isDrawing
  /\ store.currentSelection # Null
  /\ isDrawing' = FALSE
  /\ startPoint' = Null
  /\ IF Significant(store.currentSelection)
     THEN /\ Len(store.selections) < MaxDrawn
          /\ store' = setCurrentSelection(
                        addSelection(store, store.currentSelection), Null)
     ELSE store' = setCurrentSelection(store, Null)
  /\ UNCHANGED <<img, rvars, dvars, autoDetecting, uploading, scale>>

\* SmartReplyButton.tsx:215-220: setScale(Math.min(scale + 0.25, 3)).  The
\* pointer is on the canvas while a rectangle is drawn; the zoom buttons
\* are reached between two drags.
ZoomIn ==
  /\ store.mediaFile # Null
  /\ ~isDrawing
  /\ scale' = <<Min(scale[1] + 1, 12), 4>>
  /\ UNCHANGED <<img, rvars, dvars, store, autoDetecting, uploading,
                 isDrawing, startPoint>>

\* SmartReplyButton.tsx:222-227: setScale(Math.max(scale - 0.25, 0.5)).
ZoomOut ==
  /\ store.mediaFile # Null
  /\ ~isDrawing
  /\ scale' = <<IF scale[1] - 1 < 2 THEN 2 ELSE scale[1] - 1, 4>>
  /\ UNCHANGED <<img, rvars, dvars, store, autoDetecting, uploading,
                 isDrawing, startPoint>>

\* SmartReplyButton.tsx:188-210: the two tool buttons.
SetToolMode ==
  /\ store.mediaFile # Null
  /\ \E mode \in {"select", "pan"} : store' = setToolMode(store, mode)
  /\ UNCHANGED <<img, rvars, dvars, autoDetecting, uploading, scale,
                 isDrawing, startPoint>>

\* SmartReplyButton.tsx:237-245: the button shown while there are selections.
ClearSelections ==
  /\ store.mediaFile # Null
  /\ Len(store.selections) > 0
  /\ store' = clearSelections(store)
  /\ UNCHANGED <<img, rvars, dvars, autoDetecting, uploading, scale,
                 isDrawing, startPoint>>

\* ------------------------------------------------- WatermarkRemover
\* A call of removeWatermark or detectWatermarks has not ended.
RemovalInFlight == pc \in {"loading", "awaiting", "encoding"}
DetectionInFlight == dpc \in {"delay", "loading"}

\* Icons.tsx:85-102, handleAutoDetect up to its await.  The button is
\* rendered with the media file and disabled while autoDetecting or
\* isProcessing (288-291).  The calls in flight share one decoded image.
HandleAutoDetect ==
  /\ store.mediaFile # Null
  /\ ~autoDetecting
  /\ ~store.processingStatus.isProcessing
  /\ IF store.mediaFile.type # "image"
     THEN /\ store' = setProcessingStatus(store,
                        [error |-> "Automatisk deteksjon fungerer kun for bilder"])
          /\ UNCHANGED <<img, dvars, autoDetecting>>
     ELSE /\ RemovalInFlight => img = Decoded(store.mediaFile.url)
          /\ Len(store.selections) < MaxStored
          /\ autoDetecting' = TRUE
          /\ store' = setProcessingStatus(store,
                        [isProcessing |-> TRUE, stage |-> "detecting",
                         progress |-> <<0, 1>>, error |-> "undefined"])
          /\ img' = Decoded(store.mediaFile.url)
          /\ dpc' = "delay"
          /\ detections' = <<>>
          /\ derror' = "none"
          /\ dbuffer' = NoCanvas
          /\ UNCHANGED earlier
  /\ UNCHANGED <<rvars, uploading, scale, isDrawing, startPoint>>

\* store with each of sels added, in order (Icons.tsx:112-114).
RECURSIVE AddAll(_, _)
AddAll(st, sels) ==
  IF sels = <<>> THEN st ELSE AddAll(addSelection(st, Head(sels)), Tail(sels))

\* Icons.tsx:102-131, handleAutoDetect after its await, once the promise
\* is settled: nothing found, something found, or the catch; then finally.
\* A promise that stays pending resumes nothing.
AfterDetection ==
  IF dpc' = "resolved"
  THEN /\ store' = IF detections' = <<>>
                   THEN setProcessingStatus(store,
                          [error |-> "Ingen vannmerker ble funnet automatisk",
                           isProcessing |-> FALSE, stage |-> "idle"])
                   ELSE setProcessingStatus(AddAll(store, detections'),
                          [isProcessing |-> FALSE, stage |-> "idle",
                           progress |-> <<100, 1>>, error |-> "undefined"])
       /\ autoDetecting' = FALSE
  ELSE IF dpc' = "rejected"
  THEN /\ store' = setProcessingStatus(store,
                     [error |-> "Kunne ikke utfore automatisk deteksjon",
                      isProcessing |-> FALSE, stage |-> "idle"])
       /\ autoDetecting' = FALSE
  ELSE UNCHANGED <<store, autoDetecting>>

\* The events of a detectWatermarks call made by handleAutoDetect.
SessionDetectOnerror ==
  /\ DetectOnerrorStep
  /\ AfterDetection
  /\ UNCHANGED <<uploading, scale, isDrawing, startPoint>>

SessionDetectOnloadNoContext ==
  /\ DetectOnloadNoContextStep
  /\ AfterDetection
  /\ UNCHANGED <<uploading, scale, isDrawing, startPoint>>

SessionDetectOnload ==
  /\ DetectOnloadStep
  /\ AfterDetection
  /\ UNCHANGED <<uploading, scale, isDrawing, startPoint>>

\* A guard that lets a video through.
RemovalGuardAnyType(st) ==
  IF st.mediaFile = Null \/ Len(st.selections) = 0 THEN "Vennligst marker omrade(r)"
  ELSE "ok"

\* Icons.tsx:135-147, the two tests handleRemoveWatermark begins with: the
\* error it sets, or "ok".
RemovalGuard(st) ==
  IF st.mediaFile = Null \/ Len(st.selections) = 0 THEN "Vennligst marker omrade(r)"
  ELSE IF st.mediaFile.type = "video" THEN "Videobehandling kommer snart"
  ELSE "ok"

\* Icons.tsx:134-160, handleRemoveWatermark up to its await.  The button is
\* rendered with the media file and disabled without selections, while
\* isProcessing and once there is a processed URL (301-307).  One call of
\* removeWatermark is in flight at a time.
HandleRemoveWatermark ==
  /\ store.mediaFile # Null
  /\ Len(store.selections) > 0
  /\ ~store.processingStatus.isProcessing
  /\ store.processedMediaUrl = Null
  /\ IF RemovalGuard(store) # "ok"
     THEN /\ store' = setProcessingStatus(store, [error |-> RemovalGuard(store)])
          /\ UNCHANGED <<img, rvars>>
     ELSE /\ ~RemovalInFlight
          /\ DetectionInFlight => img = Decoded(store.mediaFile.url)
          /\ store' = setProcessingStatus(store,
                        [isProcessing |-> TRUE, stage |-> "removing",
                         progress |-> <<0, 1>>, error |-> "undefined"])
          /\ img' = Decoded(store.mediaFile.url)
          /\ selections' = store.selections
          /\ onProgress' = TRUE
          /\ pc' = "loading"
          /\ canvas' = NoCanvas
          /\ i' = 0
          /\ drawn' = 0
          /\ progress' = <<>>
          /\ log' = <<>>
          /\ prevCanvas' = NoCanvas
          /\ lastPool' = <<>>
          /\ lastTemp' = <<>>
          /\ error' = "none"
          /\ UNCHANGED tape
  /\ UNCHANGED <<dvars, autoDetecting, uploading, scale, isDrawing, startPoint>>

\* A catch block that reports the error and leaves the spinner running.
CatchRemovalStillProcessing(st) ==
  setProcessingStatus(st, [error |-> "Kunne ikke fjerne vannmerket"])

\* Icons.tsx:172-178, the catch of handleRemoveWatermark.
CatchRemoval(st) ==
  setProcessingStatus(st,
    [error |-> "Kunne ikke fjerne vannmerket",
     isProcessing |-> FALSE, stage |-> "idle"])

\* Icons.tsx:156-178: what an event of the removeWatermark call does to the
\* store.  The sink passed at 159 stores each progress value; a resolved
\* promise resumes the handler at 163-171 with the URL of the encoded
\* canvas, a rejected one in its catch.
AfterRemoval ==
  LET told == IF progress' # progress
              THEN setProcessingStatus(store,
                     [progress |-> progress'[Len(progress')]])
              ELSE store
  IN  store' =
        IF pc' = "resolved"
        THEN setProcessingStatus(
               setProcessedMediaUrl(told, [type |-> "blob", image |-> canvas']),
               [isProcessing |-> FALSE, stage |-> "complete",
                progress |-> <<100, 1>>, error |-> "undefined"])
        ELSE IF pc' = "rejected" THEN CatchRemoval(told)
        ELSE told

\* The events of a removeWatermark call made by handleRemoveWatermark.
SessionOnerror ==
  /\ OnerrorStep
  /\ AfterRemoval
  /\ UNCHANGED <<autoDetecting, uploading, scale, isDrawing, startPoint>>

SessionOnloadNoContext ==
  /\ OnloadNoContextStep
  /\ AfterRemoval
  /\ UNCHANGED <<autoDetecting, uploading, scale, isDrawing, startPoint>>

SessionOnload ==
  /\ OnloadStep
  /\ AfterRemoval
  /\ UNCHANGED <<autoDetecting, uploading, scale, isDrawing, startPoint>>

SessionResume ==
  /\ ResumeStep
  /\ AfterRemoval
  /\ UNCHANGED <<autoDetecting, uploading, scale, isDrawing, startPoint>>

SessionBlobCallback ==
  /\ BlobCallbackStep
  /\ AfterRemoval
  /\ UNCHANGED <<autoDetecting, uploading, scale, isDrawing, startPoint>>

\* Icons.tsx:246-254: the reset button is rendered with the media file.
ResetAllowed == store.mediaFile # Null

\* Icons.tsx:193-197, handleReset, confirmed.  MediaPreview is unmounted
\* with the media file (282-283) and loses its state.
HandleReset ==
  /\ ResetAllowed
  /\ store' = InitialStore
  /\ scale' = <<4, 4>>
  /\ isDrawing' = FALSE
  /\ startPoint' = Null
  /\ UNCHANGED <<img, rvars, dvars, autoDetecting, uploading>>

\* The rectangles MediaPreview adds at scale 1: a sliver a quarter of the
\* canvas wide, the whole canvas, the rest beside the sliver.
Drawn ==
  {Dragged(from, p) : from \in Pointer(<<4, 4>>), p \in Pointer(<<4, 4>>)}
    \ {r \in {Dragged(from, p) : from \in Pointer(<<4, 4>>), p \in Pointer(<<4, 4>>)} :
          ~Significant(r)}

\* A media file as FileUploader loaded it, with the selections sels drawn
\* on it.
Loaded(file, sels) ==
  [setProcessingStatus(setMediaFile(InitialStore, MediaOf(file)),
     [isProcessing |-> FALSE, stage |-> "idle", progress |-> <<100, 1>>])
   EXCEPT !.selections = sels]

\* The page as loaded, or with a file dropped on it and up to MaxStored
\* rectangles drawn in MediaPreview; no call made.
SessionInit ==
  /\ store \in {InitialStore}
       \cup {Loaded(file, sels) :
               file \in {f \in Files : f.url \in {"a", "b", "v"} /\ ~f.large},
               sels \in UNION {[1 .. n -> Drawn] : n \in 0 .. MaxStored}}
  /\ autoDetecting = FALSE
  /\ uploading = Null
  /\ scale = <<4, 4>>
  /\ isDrawing = FALSE
  /\ startPoint = Null
  /\ img = NoCanvas
  /\ selections = <<>>
  /\ tape = [n \in {0, 1} |-> 0]
  /\ onProgress = FALSE
  /\ pc = "idle"
  /\ canvas = NoCanvas
  /\ i = 0
  /\ drawn = 0
  /\ progress = <<>>
  /\ log = <<>>
  /\ prevCanvas = NoCanvas
  /\ lastPool = <<>>
  /\ lastTemp = <<>>
  /\ error = "none"
  /\ dpc = "idle"
  /\ detections = <<>>
  /\ derror = "none"
  /\ dbuffer = NoCanvas
  /\ earlier = <<>>

SessionNext ==
  \/ OnDrop
  \/ UploadOnload
  \/ UploadOnerror
  \/ HandleAutoDetect
  \/ DetectTimer
  \/ SessionDetectOnerror
  \/ SessionDetectOnloadNoContext
  \/ SessionDetectOnload
  \/ HandleRemoveWatermark
  \/ SessionOnerror
  \/ SessionOnloadNoContext
  \/ SessionOnload
  \/ SessionResume
  \/ SessionBlobCallback
  \/ HandleReset

SpecSession == SessionInit /\ [][SessionNext]_vars

\* MediaPreview by itself, mounted on a media file that was just loaded.
PreviewInit ==
  /\ \E file \in {f \in Files : f.url \in {"a", "v"} /\ ~f.large} :
       store = Loaded(file, <<>>)
  /\ autoDetecting = FALSE
  /\ uploading = Null
  /\ scale = <<4, 4>>
  /\ isDrawing = FALSE
  /\ startPoint = Null
  /\ img = NoCanvas
  /\ selections = <<>>
  /\ tape = [n \in {0, 1} |-> 0]
  /\ onProgress = FALSE
  /\ pc = "idle"
  /\ canvas = NoCanvas
  /\ i = 0
  /\ drawn = 0
  /\ progress = <<>>
  /\ log = <<>>
  /\ prevCanvas = NoCanvas
  /\ lastPool = <<>>
  /\ lastTemp = <<>>
  /\ error = "none"
  /\ dpc = "idle"
  /\ detections = <<>>
  /\ derror = "none"
  /\ dbuffer = NoCanvas
  /\ earlier = <<>>

PreviewNext ==
  \/ HandleMouseDown
  \/ HandleMouseMove
  \/ HandleMouseUp
  \/ ZoomIn
  \/ ZoomOut
  \/ SetToolMode
  \/ ClearSelections

SpecPreview == PreviewInit /\ [][PreviewNext]_vars

\* --------------------------------------------------- claims: detector
\* The pixels of img in the 32 x 32 square whose corner is (bx, by).
SquareAt(bx, by) ==
  {n \in DOMAIN img.data :
     /\ n % img.width >= bx /\ n % img.width < bx + 32
     /\ n \div img.width >= by /\ n \div img.width < by + 32}

\* The corners of the 32 x 32 squares tiling img.
Corners ==
  {<<bx, by>> \in (0 .. img.width - 1) \X (0 .. img.height - 1) :
     bx % 32 = 0 /\ by % 32 = 0}

\* The result holds a region for the block at (bx, by).
Emitted(bx, by) ==
  \E k \in DOMAIN detections :
    /\ detections[k].x[1] * img.width = bx * detections[k].x[2]
    /\ detections[k].y[1] * img.height = by * detections[k].y[2]

\* The flag rule as the claim words it, counted over the block's pixels.
RuleHolds(bx, by) ==
  LET total == Cardinality(SquareAt(bx, by))
      transparentCount == Cardinality({n \in SquareAt(bx, by) : img.data[n][4] < 200})
      extremeCount ==
        Cardinality({n \in SquareAt(bx, by) :
                       LET sum == img.data[n][1] + img.data[n][2] + img.data[n][3]
                       IN  sum > 600 \/ sum < 150})
  IN  10 * transparentCount > 3 * total \/ 2 * extremeCount > total

IsAlphaBlock(k) ==
  /\ img.width = 32 /\ img.height = 32
  /\ \A n \in DOMAIN img.data :
       /\ img.data[n][1] = 128 /\ img.data[n][2] = 128 /\ img.data[n][3] = 128
       /\ img.data[n][4] \in {150, 255}
  /\ Cardinality({n \in DOMAIN img.data : img.data[n][4] = 150}) = k

\* C5 as claimed: the block is flagged with exactly 307 pixels of alpha 150
\* and not flagged with 306.
C5_FlaggedAt307 ==
  dpc = "resolved" =>
    /\ IsAlphaBlock(307) => detections # <<>>
    /\ IsAlphaBlock(306) => detections = <<>>

\* C5 amended: the block is flagged with exactly 308 pixels of alpha 150 and
\* not flagged with 307 (0.3 * 1024 = 307.2, and the comparison is strict).
C5_ThresholdBoundary ==
  dpc = "resolved" =>
    /\ IsAlphaBlock(308) => Len(detections) = 1
    /\ IsAlphaBlock(307) => detections = <<>>
    /\ IsAlphaBlock(306) => detections = <<>>

\* C5 witness: the block with 308 pixels of alpha 150, flagged.
C5_Witness ==
  /\ dpc = "resolved"
  /\ IsAlphaBlock(308)
  /\ Len(detections) = 1

\* img is the end-to-end scenario: 64 x 64, opaque mid-gray except a 16 x 16
\* square of alpha 0 (any RGB) with its corner at (24, 24).
IsEndToEnd ==
  /\ img.width = 64 /\ img.height = 64
  /\ \A n \in DOMAIN img.data :
       IF /\ n % 64 >= 24 /\ n % 64 < 40
          /\ n \div 64 >= 24 /\ n \div 64 < 40
       THEN img.data[n][4] = 0
       ELSE img.data[n] = <<128, 128, 128, 255>>

\* C6 as claimed: in the end-to-end scenario every block overlapping the
\* square (all four) is flagged.
C6_OverlappingBlocksFlagged ==
  (dpc = "resolved" /\ IsEndToEnd) =>
    /\ detections # <<>>
    /\ \A c \in Corners : Emitted(c[1], c[2])

\* C6 amended: in the end-to-end scenario each of the four blocks holds 64
\* transparent pixels of 1024, and the detector flags none: the result is
\* empty, whatever RGB the transparent pixels carry.
C6_EndToEndNothingFlagged ==
  (dpc = "resolved" /\ IsEndToEnd) =>
    /\ detections = <<>>
    /\ \A c \in Corners :
         Cardinality({n \in SquareAt(c[1], c[2]) : img.data[n][4] = 0}) = 64

\* C6 witness: the scenario with transparent pixels that carry a colour.
C6_Witness ==
  /\ dpc = "resolved"
  /\ IsEndToEnd
  /\ img.data[24 * 64 + 24] = <<255, 255, 255, 0>>
  /\ detections = <<>>

\* A selection equal to {x: 0, y: 0, width: 1, height: 1}.
IsWholeImage(sel) ==
  /\ sel.x[1] = 0 /\ sel.y[1] = 0
  /\ sel.width[1] = sel.width[2] /\ sel.height[1] = sel.height[2]

\* The detector examined one block, which covers the image, and emitted at
\* most one region, the whole image.
OneBlock ==
  /\ Len(BlockOrigins(img)) = 1
  /\ BlockPixels(img, 0, 0) = DOMAIN img.data
  /\ Len(detections) <= 1
  /\ \A k \in DOMAIN detections : IsWholeImage(detections[k])

\* C8 as claimed: an image smaller than 32 in either dimension is examined
\* as one block covering it.
C8_OneBlockIfEitherSmall ==
  (dpc = "resolved" /\ (img.width < 32 \/ img.height < 32)) => OneBlock

\* C8 amended: an image whose width and height are both at most 32 is
\* examined as one block covering it, so at most one region, the whole
\* image, is emitted.
C8_OneBlockIfBothSmall ==
  (dpc = "resolved" /\ img.width <= 32 /\ img.height <= 32) => OneBlock

\* C8 witness: an image smaller than a block in both dimensions, flagged.
C8_Witness ==
  /\ dpc = "resolved"
  /\ img.width < 32 /\ img.height < 32 /\ img.width * img.height > 1
  /\ Len(detections) = 1
  /\ IsWholeImage(detections[1])

\* C12: detection failure.  Whenever the image cannot be turned into a pixel
\* buffer (load error, no 2D context, or a loaded image of zero width or
\* height, where reading the pixel data throws), the call has settled as
\* rejected once the handler has run: it is neither resolved nor left
\* pending by a handler that threw.
C12_DetectionFailureRejects ==
  /\ (dpc \notin {"delay", "loading"} /\ Throws(img.width, img.height)) =>
       dpc = "rejected"
  /\ derror # "none" => dpc = "rejected"

IsBlockRegion(sel, bx, by) ==
  /\ sel.x[1] * img.width = bx * sel.x[2]
  /\ sel.y[1] * img.height = by * sel.y[2]
  /\ sel.width[1] * img.width
       = (IF img.width - bx < 32 THEN img.width - bx ELSE 32) * sel.width[2]
  /\ sel.height[1] * img.height
       = (IF img.height - by < 32 THEN img.height - by ELSE 32) * sel.height[2]
  /\ sel.type = "auto"

\* Block e comes before block c in row-major order.
RowMajorBefore(e, c) == e[2] < c[2] \/ (e[2] = c[2] /\ e[1] < c[1])

\* The blocks the flag rule holds for.
FlaggedCorners == {c \in Corners : RuleHolds(c[1], c[2])}

\* C15: detector emission.  The result holds one region per flagged block
\* and nothing else; the k-th region is that of the k-th flagged block in
\* row-major order, with x = blockX/W, y = blockY/H, width = min(G, W -
\* blockX)/W, height = min(G, H - blockY)/H and kind 'auto'; adjacent flagged
\* blocks stay separate regions.
C15_DetectorEmission ==
  dpc = "resolved" =>
    /\ Len(detections) = Cardinality(FlaggedCorners)
    /\ \A c \in FlaggedCorners :
         LET k == 1 + Cardinality({e \in FlaggedCorners : RowMajorBefore(e, c)})
         IN  IsBlockRegion(detections[k], c[1], c[2])

\* C15 witness: three adjacent flagged blocks and an unflagged one, the
\* regions of the first row before the one of the second.
C15_Witness ==
  /\ dpc = "resolved"
  /\ Len(detections) = 3
  /\ Cardinality(Corners) = 4
  /\ IsBlockRegion(detections[1], 0, 0)
  /\ IsBlockRegion(detections[2], 32, 0)
  /\ IsBlockRegion(detections[3], 0, 32)

\* a <= b for rationals with positive denominators.
RatLeq(a, b) == a[1] * b[2] <= b[1] * a[2]

\* a + b for rationals.
RatSum(a, b) == <<a[1] * b[2] + b[1] * a[2], a[2] * b[2]>>

\* C16: region invariant for detector output.  Every emitted region has x,
\* y, width, height in [0, 1], width > 0, height > 0, x + width <= 1 and
\* y + height <= 1, for image sizes that are multiples of 32 and for those
\* that are not.
C16_RegionInvariant ==
  dpc = "resolved" =>
    \A k \in DOMAIN detections :
      LET sel == detections[k] IN
      /\ \A f \in {sel.x, sel.y, sel.width, sel.height} :
           f[2] > 0 /\ RatLeq(<<0, 1>>, f) /\ RatLeq(f, <<1, 1>>)
      /\ sel.width[1] > 0 /\ sel.height[1] > 0
      /\ RatLeq(RatSum(sel.x, sel.width), <<1, 1>>)
      /\ RatLeq(RatSum(sel.y, sel.height), <<1, 1>>)

\* C16 witness: a 33 x 33 image; the region of its last block starts at
\* 32/33 and is 1/33 wide and high.
C16_Witness ==
  /\ dpc = "resolved"
  /\ img.width = 33 /\ img.height = 33
  /\ Len(detections) = 4
  /\ detections[4].x[1] * 33 = 32 * detections[4].x[2]
  /\ detections[4].width[1] * 33 = detections[4].width[2]
  /\ RatSum(detections[4].x, detections[4].width)[1]
       = RatSum(detections[4].x, detections[4].width)[2]

\* ------------------------------------------- claims: fill and blur
\* Pixel n of the canvas in the coordinates of the last region's data.
LocalX(n) == (n % canvas.width) - LastRect.x
LocalY(n) == (n \div canvas.width) - LastRect.y

\* The pixels of the last region's data (as <<x, y>>) within the 5 x 5
\* square centred on (px, py): those that contribute to its blurred value.
Contributors(px, py) ==
  {q \in (0 .. LastRect.width - 1) \X (0 .. LastRect.height - 1) :
     /\ q[1] >= px - 2 /\ q[1] <= px + 2
     /\ q[2] >= py - 2 /\ q[2] <= py + 2}

\* The pre-blur value of channel ch at pixel q of the last region's data.
Snapshot(q, ch) == lastTemp[q[2] * LastRect.width + q[1]][ch]

\* C17: blur bounded averaging.  For every pixel of the region, edge pixels
\* included, and every channel, the value after the smoothing pass lies
\* between the least and the greatest pre-blur snapshot value of the pixels
\* that contributed to its average.
C17_BlurBounded ==
  (pc = "awaiting" /\ lastTemp # <<>>) =>
    \A n \in PixelsInside(canvas, LastRect) : \A ch \in 1 .. 4 :
      LET S == Contributors(LocalX(n), LocalY(n))
      IN  /\ \E q \in S : Snapshot(q, ch) <= canvas.data[n][ch]
          /\ \E q \in S : Snapshot(q, ch) >= canvas.data[n][ch]

\* C17 witness: the corner pixel of a region (at most nine of the 25 kernel
\* positions exist) whose blurred value lies strictly between snapshot
\* values of its contributors.
C17_Witness ==
  /\ pc = "awaiting"
  /\ lastTemp # <<>>
  /\ \E n \in PixelsInside(canvas, LastRect) : \E ch \in 1 .. 4 :
       LET S == Contributors(LocalX(n), LocalY(n))
       IN  /\ LocalX(n) = 0 /\ LocalY(n) = 0
           /\ Cardinality(S) <= 9
           /\ \E q \in S : Snapshot(q, ch) < canvas.data[n][ch]
           /\ \E q \in S : Snapshot(q, ch) > canvas.data[n][ch]

\* r = min(20, floor(min(w, h) / 4)) for the last region.
RingRadius ==
  LET m == (IF LastRect.width < LastRect.height
            THEN LastRect.width ELSE LastRect.height) \div 4
  IN  IF m > 20 THEN 20 ELSE m

\* The pixel (px, py) lies in [x-r, x+w+r) x [y-r, y+h+r) and not in the
\* region [x, x+w) x [y, y+h).
InRing(px, py) ==
  /\ px >= LastRect.x - RingRadius
  /\ px < LastRect.x + LastRect.width + RingRadius
  /\ py >= LastRect.y - RingRadius
  /\ py < LastRect.y + LastRect.height + RingRadius
  /\ ~InRect(LastRect, px, py)

\* The pixels of the buffer (as indices) in the ring of the last region.
RingPixels ==
  {n \in DOMAIN prevCanvas.data :
     InRing(n % prevCanvas.width, n \div prevCanvas.width)}

\* C18: context pool composition.  The pool of a region holds the values
\* of exactly the in-buffer pixels of the ring [x-r, x+w+r) x [y-r, y+h+r)
\* minus the region, each pixel once, the corner areas included: it has as
\* many entries as the ring has pixels in the buffer, and every value
\* occurs in it as often as among those pixels.
C18_PoolComposition ==
  pc = "awaiting" =>
    /\ Len(lastPool) = Cardinality(RingPixels)
    /\ \A k \in DOMAIN lastPool :
         Cardinality({j \in DOMAIN lastPool : lastPool[j] = lastPool[k]})
           = Cardinality({n \in RingPixels : prevCanvas.data[n] = lastPool[k]})

\* C18 witness: a region whose whole ring lies in the buffer, its four
\* corner pixels included, and differs in value from the region's pixels.
C18_Witness ==
  /\ pc = "awaiting"
  /\ RingRadius >= 1
  /\ Len(lastPool)
       = (LastRect.width + 2 * RingRadius) * (LastRect.height + 2 * RingRadius)
           - LastRect.width * LastRect.height
  /\ \A cx \in {LastRect.x - RingRadius, LastRect.x + LastRect.width + RingRadius - 1} :
       \A cy \in {LastRect.y - RingRadius, LastRect.y + LastRect.height + RingRadius - 1} :
         /\ InCanvas(prevCanvas, cx, cy)
         /\ cy * prevCanvas.width + cx \in RingPixels
  /\ \E k \in DOMAIN lastPool : lastPool[k][4] < 255

\* The number of Math.random() calls made before the last inpaintRegion
\* call, which made 5 per pixel of its data.
DrawnBefore == drawn - 5 * LastRect.width * LastRect.height

\* The index into the pool that the s-th draw (0-based) for pixel p of the
\* data takes: floor(random * poolSize).
DrawIndex(p, s) ==
  (Random(tape, DrawnBefore + 5 * p + s) * Len(lastPool)) \div RandDen

\* The mean of channel ch over the five entries drawn for pixel p, as an
\* 8-bit store rounds it.
MeanOfDraws(p, ch) ==
  ToUint8Clamped(lastPool[DrawIndex(p, 0) + 1][ch] + lastPool[DrawIndex(p, 1) + 1][ch]
                   + lastPool[DrawIndex(p, 2) + 1][ch] + lastPool[DrawIndex(p, 3) + 1][ch]
                   + lastPool[DrawIndex(p, 4) + 1][ch], 5)

\* C19: fill step.  With a non-empty context pool, before the blur every
\* pixel of the region holds the channel-wise mean, stored as 8 bits, of 5
\* pool entries; each is chosen by an index in [0, poolSize) from draws of
\* that pixel alone, and the same 5 entries supply R, G, B and A.
C19_FillStep ==
  (pc = "awaiting" /\ lastPool # <<>>) =>
    /\ DOMAIN lastTemp = 0 .. LastRect.width * LastRect.height - 1
    /\ \A p \in DOMAIN lastTemp :
         /\ \A s \in 0 .. 4 : DrawIndex(p, s) >= 0 /\ DrawIndex(p, s) < Len(lastPool)
         /\ \A ch \in 1 .. 4 : lastTemp[p][ch] = MeanOfDraws(p, ch)

\* C19 witness: a pixel filled from draws that chose different pool entries,
\* of different alpha, its neighbour from other draws.
C19_Witness ==
  /\ pc = "awaiting"
  /\ lastPool # <<>>
  /\ \E p \in DOMAIN lastTemp :
       /\ lastPool[DrawIndex(p, 0) + 1][4] # lastPool[DrawIndex(p, 1) + 1][4]
       /\ p + 1 \in DOMAIN lastTemp
       /\ DrawIndex(p + 1, 0) # DrawIndex(p, 0)
       /\ lastTemp[p + 1] # lastTemp[p]

\* The sum of channel ch of the snapshot over the pixels of S.
RECURSIVE SnapshotSum(_, _)
SnapshotSum(S, ch) ==
  IF S = {} THEN 0
  ELSE LET q == CHOOSE q \in S : TRUE
       IN  Snapshot(q, ch) + SnapshotSum(S \ {q}, ch)

\* C20: the blur reads a snapshot.  Every output pixel of the smoothing pass
\* is the mean of the pre-blur snapshot values over the 5 x 5 square around
\* it (radius 2, centre included) clipped to the region, divided by the
\* number of those positions and stored as 8 bits; no blurred value enters
\* it, so the order in which pixels are blurred does not matter.
C20_BlurReadsSnapshot ==
  (pc = "awaiting" /\ lastTemp # <<>>) =>
    \A n \in PixelsInside(canvas, LastRect) : \A ch \in 1 .. 4 :
      LET S == Contributors(LocalX(n), LocalY(n))
      IN  canvas.data[n][ch] = ToUint8Clamped(SnapshotSum(S, ch), Cardinality(S))

\* C20 witness: a region clear of the four edges whose blurred pixels differ
\* from what a blur reading its own output would have given; its corner
\* averaged 9 positions, an inner pixel 16.
C20_Witness ==
  /\ pc = "awaiting"
  /\ lastTemp # <<>>
  /\ LastRect.width = 4 /\ LastRect.height = 4
  /\ PixelsInside(canvas, LastRect) # {}
  /\ Cardinality(PixelsOutside(canvas, LastRect)) >= 20
  /\ Cardinality(Contributors(0, 0)) = 9
  /\ Cardinality(Contributors(1, 1)) = 16
  /\ \E n \in PixelsInside(canvas, LastRect) :
       canvas.data[n] # BlurredUpTo(lastTemp, 4, 4, 2, 16)[LocalY(n) * 4 + LocalX(n)]

\* ------------------------------------------- claims: blur and context
\* The pixels of the canvas within the 5 x 5 square centred on pixel n.
KernelInBuffer(n) ==
  {m \in 0 .. canvas.width * canvas.height - 1 :
     /\ (m % canvas.width) - (n % canvas.width) \in -2 .. 2
     /\ (m \div canvas.width) - (n \div canvas.width) \in -2 .. 2}

\* The pixels of the last region whose kernel reaches pixels of the canvas
\* outside the region.
EdgePixels ==
  {n \in PixelsInside(canvas, LastRect) :
     KernelInBuffer(n) \ PixelsInside(canvas, LastRect) # {}}

\* Channel ch of canvas pixel m as the smoothing pass found it: the filled
\* value inside the last region, the untouched canvas outside it.
CombinedValue(m, ch) ==
  IF m \in PixelsInside(canvas, LastRect)
  THEN Snapshot(<<LocalX(m), LocalY(m)>>, ch)
  ELSE canvas.data[m][ch]

\* The sum of channel ch of CombinedValue over the canvas pixels of S.
RECURSIVE CombinedSum(_, _)
CombinedSum(S, ch) ==
  IF S = {} THEN 0
  ELSE LET m == CHOOSE m \in S : TRUE
       IN  CombinedValue(m, ch) + CombinedSum(S \ {m}, ch)

\* C21 as stated: blur over the combined rectangle.  For a pixel of the
\* region whose 5 x 5 kernel reaches canvas pixels outside the region, those
\* outside pixels contribute to its average: the value stored is the mean
\* over every kernel position inside the canvas, the divisor shrinking only
\* at the canvas's bounds.
C21_BlurOverCombinedRectangle ==
  (pc = "awaiting" /\ lastTemp # <<>>) =>
    \A n \in EdgePixels : \A ch \in 1 .. 4 :
      canvas.data[n][ch]
        = ToUint8Clamped(CombinedSum(KernelInBuffer(n), ch),
                         Cardinality(KernelInBuffer(n)))

\* C21 amended: the smoothing pass is clipped at the region.  For a pixel of
\* the region whose 5 x 5 kernel reaches canvas pixels outside the region,
\* no outside pixel contributes: the value stored is the mean of the filled
\* values over the kernel positions inside the region's own block, and the
\* divisor is their number; for a region inside the canvas that is fewer
\* than the kernel positions inside the canvas.
C21_BlurClippedAtRegion ==
  (pc = "awaiting" /\ lastTemp # <<>>) =>
    \A n \in EdgePixels : \A ch \in 1 .. 4 :
      LET S == Contributors(LocalX(n), LocalY(n))
      IN  /\ canvas.data[n][ch] = ToUint8Clamped(SnapshotSum(S, ch), Cardinality(S))
          /\ (/\ LastRect.x + LastRect.width <= canvas.width
              /\ LastRect.y + LastRect.height <= canvas.height)
               => Cardinality(S) < Cardinality(KernelInBuffer(n))

\* C21 witness: a region clear of the four edges of the canvas was smoothed,
\* and a corner pixel of it, whose kernel holds 9 region pixels and 7
\* canvas pixels outside the region, differs from the mean over all 16.
C21_Witness ==
  /\ pc = "awaiting"
  /\ lastTemp # <<>>
  /\ LastRect.width = 4 /\ LastRect.height = 4
  /\ \E n \in EdgePixels :
       /\ LocalX(n) = 0 /\ LocalY(n) = 0
       /\ Cardinality(KernelInBuffer(n)) = 16
       /\ Cardinality(KernelInBuffer(n) \cap PixelsInside(canvas, LastRect)) = 9
       /\ \E ch \in 1 .. 4 :
            canvas.data[n][ch]
              # ToUint8Clamped(CombinedSum(KernelInBuffer(n), ch), 16)

\* ------------------------------------------- claims: block partition
\* The edge of a block that starts at offset o along a side of length n.
ClippedEdge(o, n) == IF o + gridSize <= n THEN gridSize ELSE n - o

\* The sum of totalPixels over the first k blocks the detector examined.
RECURSIVE TotalPixelsSum(_, _)
TotalPixelsSum(im, k) ==
  IF k = 0 THEN 0
  ELSE TotalPixelsSum(im, k - 1)
         + totalPixels(im, BlockOrigins(im)[k][1], BlockOrigins(im)[k][2])

\* C22: block partition.  For an image of width and height at least 1 the
\* blocks the detector examined are pairwise disjoint; each lies inside the
\* image and is the rectangle at its origin with edges 32, or W - blockX and
\* H - blockY in the last column and row; together they hold every pixel
\* of the image, so each pixel lies in exactly one block, and the blocks'
\* totalPixels add up to W * H.
C22_BlockPartition ==
  (dpc = "resolved" /\ img.width >= 1 /\ img.height >= 1) =>
    LET O == BlockOrigins(img)
        B(k) == BlockPixels(img, O[k][1], O[k][2])
    IN  /\ \A j, k \in DOMAIN O : j # k => B(j) \cap B(k) = {}
        /\ \A k \in DOMAIN O :
             B(k) = {y * img.width + x :
                       x \in O[k][1] .. O[k][1] + ClippedEdge(O[k][1], img.width) - 1,
                       y \in O[k][2] .. O[k][2] + ClippedEdge(O[k][2], img.height) - 1}
        /\ \A k \in DOMAIN O :
             /\ O[k][1] + ClippedEdge(O[k][1], img.width) <= img.width
             /\ O[k][2] + ClippedEdge(O[k][2], img.height) <= img.height
             /\ ClippedEdge(O[k][1], img.width) \in 1 .. gridSize
             /\ ClippedEdge(O[k][2], img.height) \in 1 .. gridSize
             /\ totalPixels(img, O[k][1], O[k][2])
                  = ClippedEdge(O[k][1], img.width) * ClippedEdge(O[k][2], img.height)
        /\ UNION {B(k) : k \in DOMAIN O} = 0 .. img.width * img.height - 1
        /\ TotalPixelsSum(img, Len(O)) = img.width * img.height

\* C22 witness: a 33 x 33 image was scanned as four blocks of 1024, 32, 32
\* and 1 pixels, the last three clipped.
C22_Witness ==
  /\ dpc = "resolved"
  /\ img.width = 33 /\ img.height = 33
  /\ Len(BlockOrigins(img)) = 4
  /\ totalPixels(img, 0, 0) = 1024
  /\ totalPixels(img, 32, 0) = 32
  /\ totalPixels(img, 0, 32) = 32
  /\ totalPixels(img, 32, 32) = 1
  /\ TotalPixelsSum(img, 4) = 1089

\* ------------------------------------------- claims: detector to inpainter
\* The pixel rectangle of the block at (bx, by) as the detector scanned it.
BlockRect(bx, by) ==
  [x |-> bx, y |-> by,
   width |-> Min(gridSize, img.width - bx),
   height |-> Min(gridSize, img.height - by)]

\* C25 as stated: detector-to-inpainter round trip.  For every block the
\* detector flagged, at pixel offset (bx, by) with clipped size (bw, bh),
\* the pixel rectangle removeWatermark computes from the emitted region
\* (floor(x*W), floor(y*H), floor(width*W), floor(height*H)) is exactly
\* (bx, by, bw, bh).
C25_RoundTrip ==
  dpc = "resolved" =>
    \A c \in FlaggedCorners :
      LET k == 1 + Cardinality({e \in FlaggedCorners : RowMajorBefore(e, c)})
      IN  PixelRect(img, detections[k]) = BlockRect(c[1], c[2])

\* ------------------------------------------- claims: settlement
\* The promise of removeWatermark has been resolved or rejected.
Settled == pc \in {"resolved", "rejected"}

\* C27: removal always settles exactly once.  Every call of removeWatermark
\* is eventually resolved or rejected, whichever path it takes; resolved it
\* has a canvas to encode and no error, rejected it has an error; and once
\* settled nothing of the call changes again, so it is never settled a
\* second time nor the other way.
C27_SettlesExactlyOnce ==
  /\ <>Settled
  /\ [](pc = "resolved" => error = "none" /\ canvas # NoCanvas)
  /\ [](pc = "rejected" => error # "none")
  /\ [][~Settled]_vars

\* C27 witness: a call rejected by an exception while inpainting its second
\* region, after the first was inpainted and reported.
C27_Witness ==
  /\ pc = "rejected"
  /\ error = "IndexSizeError"
  /\ i = 1
  /\ Len(progress) = 1
  /\ Len(selections) = 2

\* ------------------------------------------- claims: the manual tool
\* q lies in [0, 1].
InUnit(q) == RatLeq(<<0, 1>>, q) /\ RatLeq(q, <<1, 1>>)

\* C23 as stated: manual region invariant.  Every region the manual tool
\* has added to the store has kind 'manual', width > 0.01 and height >
\* 0.01, and is a normalized rectangle: x, y, width and height in [0, 1],
\* x + width <= 1 and y + height <= 1, whatever the zoom scale and the
\* pointer positions were.
C23_ManualRegionInvariant ==
  \A k \in DOMAIN store.selections :
    LET sel == store.selections[k]
    IN  /\ sel.type = "manual"
        /\ Significant(sel)
        /\ InUnit(sel.x) /\ InUnit(sel.y)
        /\ InUnit(sel.width) /\ InUnit(sel.height)
        /\ RatLeq(RatSum(sel.x, sel.width), <<1, 1>>)
        /\ RatLeq(RatSum(sel.y, sel.height), <<1, 1>>)

\* ------------------------------------------- claims: the session
\* The detectWatermarks call ends in this step without a region: rejected,
\* stopped by an exception, or resolved with nothing.
DetectionEndsEmpty ==
  /\ DetectionInFlight
  /\ \/ dpc' \in {"rejected", "threw"}
     \/ dpc' = "resolved" /\ detections' = <<>>

\* C24 as stated: independence of detection and inpainting.  When an
\* automatic detection fails or finds nothing the session is back at
\* isProcessing = false and stage 'idle' with its selections untouched, so
\* that the removal button is enabled again for them; when a removal fails
\* the session is back there too.
C24_DetectionIndependent ==
  [][/\ DetectionEndsEmpty =>
          /\ ~store'.processingStatus.isProcessing
          /\ store'.processingStatus.stage = "idle"
          /\ store'.selections = store.selections
     /\ (RemovalInFlight /\ pc' = "rejected") =>
          /\ ~store'.processingStatus.isProcessing
          /\ store'.processingStatus.stage = "idle"
          /\ store'.selections = store.selections]_vars

\* C26: removal guard.  removeWatermark is called only with a media file
\* loaded that is an image and with selections, and it is given that file
\* and those selections; when handleRemoveWatermark refuses, for want of a
\* file or of selections or because the file is a video, it sets the error
\* message and nothing else: isProcessing, stage, progress, the selections
\* and processedMediaUrl stay, and no call is made.
C26_RemovalGuard ==
  [][/\ (pc' = "loading" /\ pc # "loading") =>
          /\ store.mediaFile # Null
          /\ store.mediaFile.type = "image"
          /\ Len(store.selections) > 0
          /\ selections' = store.selections
          /\ img' = Decoded(store.mediaFile.url)
     /\ (/\ store'.processingStatus.error
              \in {"Vennligst marker omrade(r)", "Videobehandling kommer snart"}
         /\ store'.processingStatus.error # store.processingStatus.error) =>
          /\ \/ store.mediaFile = Null
             \/ Len(store.selections) = 0
             \/ store.mediaFile.type = "video"
          /\ store' = [store EXCEPT !.processingStatus.error =
                                      store'.processingStatus.error]
          /\ UNCHANGED <<img, rvars>>]_vars

\* C26 witness: a video with a selection drawn on it, the removal refused
\* with the message for videos and no call made.
C26_Witness ==
  /\ store.mediaFile # Null
  /\ store.mediaFile.type = "video"
  /\ Len(store.selections) > 0
  /\ store.processingStatus.error = "Videobehandling kommer snart"
  /\ store.processingStatus.stage = "idle"
  /\ ~store.processingStatus.isProcessing
  /\ pc = "idle"

\* The regions whose write-back the log holds.
Inpainted(lg) == {lg[n][2] : n \in {m \in DOMAIN lg : lg[m][1] = "inpaint"}}

\* C28: failure in the middle of a removal.  When inpainting region k of N
\* fails the call is rejected; regions 1 .. k-1 and no others were
\* processed; the sink has received exactly k-1 values, the last being
\* (k-1)/N*100, below 100; no URL is produced; the handler leaves stage
\* 'idle', isProcessing false, an error set and processedMediaUrl as it
\* was; and the rejected call processes nothing afterwards.
C28_FailureInTheMiddle ==
  [][/\ (RemovalInFlight /\ pc' = "rejected" /\ error' = "IndexSizeError") =>
          LET k == i' + 1
              N == Len(selections)
          IN  /\ k \in 1 .. N
              /\ Inpainted(log') = 1 .. k - 1
              /\ Len(progress') = k - 1
              /\ k > 1 => /\ progress'[k - 1] = <<(k - 1) * 100, N>>
                          /\ RatLess(progress'[k - 1], <<100, 1>>)
                          /\ store'.processingStatus.progress = progress'[k - 1]
              /\ store'.processedMediaUrl = store.processedMediaUrl
              /\ store'.processingStatus.stage = "idle"
              /\ ~store'.processingStatus.isProcessing
              /\ store'.processingStatus.error # "undefined"
     /\ (pc = "rejected" /\ pc' # "loading") =>
          UNCHANGED <<pc, log, progress, canvas>>]_vars

\* C28 witness: the second of two regions failed after the first was
\* inpainted and reported as 50; the session is idle with the error of the
\* catch and without a processed URL.
C28_Witness ==
  /\ pc = "rejected"
  /\ error = "IndexSizeError"
  /\ Len(selections) = 2
  /\ i = 1
  /\ progress = <<<<100, 2>>>>
  /\ Inpainted(log) = {1}
  /\ store.processingStatus.stage = "idle"
  /\ store.processingStatus.progress = <<100, 2>>
  /\ store.processingStatus.error = "Kunne ikke fjerne vannmerket"
  /\ store.processedMediaUrl = Null
  /\ store.mediaFile # Null

\* C29 as stated: session consistency under reset.  In every state of the
\* store processedMediaUrl # null implies mediaFile # null, and stage =
\* 'complete' implies mediaFile # null.
C29_SessionConsistency ==
  /\ store.processedMediaUrl # Null => store.mediaFile # Null
  /\ store.processingStatus.stage = "complete" => store.mediaFile # Null

\* C30 as stated: detected selections belong to the current image.  Every
\* 'auto' selection in the store is a region of the detection pass over the
\* media file that is loaded.
C30_AutoSelectionsOfCurrentFile ==
  \A k \in DOMAIN store.selections :
    store.selections[k].type = "auto" =>
      /\ store.mediaFile # Null
      /\ store.mediaFile.type = "image"
      /\ \E n \in DOMAIN Detect(ImageData(Decoded(store.mediaFile.url))) :
           Detect(ImageData(Decoded(store.mediaFile.url)))[n] = store.selections[k]

====
